---- MODULE Spec2Model ----
(***************************************************************************)
(* Library management service: the catalog store (database.py) and the    *)
(* lending / fee rules (library_service.py) as a state machine.            *)
(*                                                                         *)
(* Strings are sequences of one-character strings, so that len(),          *)
(* isdigit() and strip() are computed as Python computes them.             *)
(* Timestamps are integers counting ticks; a calendar day is TicksPerDay   *)
(* ticks, and datetime.date() is the integer division by TicksPerDay.      *)
(* Money is counted in cents.                                              *)
(***************************************************************************)
EXTENDS Integers, Sequences, FiniteSets, TLC

VARIABLES books, records, now, resp

vars == <<books, records, now, resp>>

(***************************************************************************)
(* Bounds of the model.                                                    *)
(***************************************************************************)
MaxRecords == 2
MaxNow == 1
ReportRecords == 4
TicksPerDay == 2
MaxLateDays == 41
LimitRecords == 7

(***************************************************************************)
(* Program constants.                                                      *)
(***************************************************************************)
LATE_FEE_CENTS == 50
LoanDays == 14
MaxLoans == 5
PatronIdLen == 6
IsbnLen == 13
FirstBlockDays == 7
FirstBlockCents == 50
LaterBlockCents == 100
MaxRefundCents == 1500
FeeCapCents == 1500
MaxTitleLen == 200
MaxAuthorLen == 100

(***************************************************************************)
(* Strings.                                                                *)
(***************************************************************************)
Digits == {"0", "1", "2", "3", "4", "5", "6", "7", "8", "9"}

Whitespace == {" "}

\* str.isdigit(): every character is a digit and there is at least one
IsDigit(s) == Len(s) > 0 /\ \A i \in 1..Len(s) : s[i] \in Digits

RECURSIVE LStrip(_)
LStrip(s) == IF s # <<>> /\ Head(s) \in Whitespace THEN LStrip(Tail(s)) ELSE s

RECURSIVE RStrip(_)
RStrip(s) ==
    IF s # <<>> /\ s[Len(s)] \in Whitespace
    THEN RStrip(SubSeq(s, 1, Len(s) - 1))
    ELSE s

\* str.strip()
Strip(s) == RStrip(LStrip(s))

DigitSeq == <<"0", "1", "2", "3", "4", "5", "6", "7", "8", "9">>

Upper == <<"A", "B", "C", "D", "E", "F", "G", "H", "I", "J", "K", "L", "M",
           "N", "O", "P", "Q", "R", "S", "T", "U", "V", "W", "X", "Y", "Z">>
Lower == <<"a", "b", "c", "d", "e", "f", "g", "h", "i", "j", "k", "l", "m",
           "n", "o", "p", "q", "r", "s", "t", "u", "v", "w", "x", "y", "z">>

\* the characters of the model in code-point order
Ascii == <<" ">> \o DigitSeq \o Upper \o <<"_">> \o Lower

\* ord()
Ord(c) == CHOOSE k \in 1..Len(Ascii) : Ascii[k] = c

\* str.casefold() / str.lower(), one character
FoldChar(c) ==
    IF \E k \in 1..Len(Upper) : Upper[k] = c
    THEN Lower[CHOOSE k \in 1..Len(Upper) : Upper[k] = c]
    ELSE c

\* str.casefold() / str.lower()
Casefold(s) == [i \in 1..Len(s) |-> FoldChar(s[i])]

\* `needle in text`
Contains(text, needle) ==
    \E i \in 1..(Len(text) - Len(needle) + 1) :
        SubSeq(text, i, i + Len(needle) - 1) = needle

\* str.startswith()
StartsWith(s, prefix) ==
    Len(s) >= Len(prefix) /\ SubSeq(s, 1, Len(prefix)) = prefix

\* s < t for two strings, by code points
RECURSIVE StrLess(_, _)
StrLess(s, t) ==
    IF t = <<>> THEN FALSE
    ELSE IF s = <<>> THEN TRUE
    ELSE IF Head(s) # Head(t) THEN Ord(Head(s)) < Ord(Head(t))
    ELSE StrLess(Tail(s), Tail(t))

\* str(n) for n >= 0
RECURSIVE DecimalString(_)
DecimalString(n) ==
    IF n < 10 THEN <<DigitSeq[n + 1]>>
    ELSE DecimalString(n \div 10) \o <<DigitSeq[(n % 10) + 1]>>

\* f"{x:.2f}" of an amount of cents >= 0
Format2(cents) ==
    DecimalString(cents \div 100) \o <<".">>
        \o <<DigitSeq[((cents % 100) \div 10) + 1], DigitSeq[(cents % 10) + 1]>>

\* the guard `not patron_id or not patron_id.isdigit() or len(patron_id) != 6`
\* negated: the id is accepted
ValidPatronId(p) == p # <<>> /\ IsDigit(p) /\ Len(p) = PatronIdLen

P1 == <<"1", "2", "3", "4", "5", "6">>
P2 == <<"6", "5", "4", "3", "2", "1">>
PShort == <<"1", "2", "3", "4", "5">>
PAlpha == <<"1", "2", "a", "4", "5", "6">>
PPadded == <<" ", "1", "2", "3", "4", "5", "6">>

Patrons == {P1, P2}
PatronInputs == {P1, P2, PAlpha}
NoPatron == <<>>

IsbnA == <<"9", "7", "8", "0", "7", "4", "3", "2", "7", "3", "5", "6", "5">>
IsbnB == <<"9", "7", "8", "0", "4", "5", "1", "5", "2", "4", "9", "3", "5">>
IsbnShort == <<"9", "7", "8", "0", "7", "4", "3", "2", "7", "3", "5", "6">>
IsbnAlpha == <<"9", "7", "8", "0", "7", "4", "3", "2", "7", "3", "5", "6", "X">>

IsbnInputs == {IsbnA, IsbnB, IsbnShort}

TitleDune == <<"D", "u", "n", "e">>
Blank == <<" ">>
AuthorFH == <<"F", "H">>

IsbnC == <<"9", "7", "8", "0", "4", "4", "1", "1", "7", "2", "7", "1", "9">>
TitleUbik == <<"U", "b", "i", "k">>
AuthorPD == <<"P", "D">>
TitleEmma == <<"E", "m", "m", "a">>
TitleEmmaPadded == <<" ", "E", "m", "m", "a", " ">>
AuthorJA == <<"J", "A">>

\* the argument tuples add_book is called with
AddBookInputs ==
    {<<TitleDune, AuthorFH, IsbnA, 2>>, <<TitleDune, AuthorFH, IsbnB, 1>>,
     <<TitleDune, AuthorFH, IsbnShort, 1>>, <<TitleDune, AuthorFH, IsbnA, 0>>,
     <<Blank, AuthorFH, IsbnA, 1>>, <<TitleDune, <<>>, IsbnA, 1>>}

KindTitle == <<"t", "i", "t", "l", "e">>
KindAuthor == <<"a", "u", "t", "h", "o", "r">>
KindIsbn == <<"i", "s", "b", "n">>

\* the (term, kind) pairs search is called with: a title fragment in another
\* case, an author fragment, an isbn with the kind padded and in capitals, a
\* short isbn, an isbn with a letter, a blank term and an unknown kind
IsbnPadded == <<" ">> \o IsbnA \o <<" ">>
SearchInputs ==
    {<<<<"U">>, KindTitle>>, <<<<"j">>, KindAuthor>>,
     <<IsbnA, <<" ", "I", "S", "B", "N">>>>, <<IsbnShort, KindIsbn>>,
     <<IsbnAlpha, KindIsbn>>, <<Blank, KindTitle>>, <<TitleDune, <<"i", "d">>>>,
     <<IsbnB, KindIsbn>>, <<IsbnPadded, KindIsbn>>}

\* the (transaction id, amount in cents) pairs refund is called with
TxnId == <<"t", "x", "n", "_", "1">>
RefundInputs ==
    {<<TxnId, 50>>, <<TxnId, 1500>>, <<TxnId, 1501>>, <<TxnId, 0>>, <<TxnId, -50>>,
     <<<<"a", "b", "c", "_", "1">>, 50>>, <<<<>>, 50>>}

\* what a call of the payment gateway may do: report success, report a
\* refusal, or raise
GatewayOutcomes == {"success", "declined", "raises"}

\* the argument tuples of the catalog desk: two valid books, a second title
\* under the first ISBN, a 13-character ISBN ending in a letter, a short ISBN,
\* a blank title and a copy count of zero
CatalogInputs ==
    {<<TitleDune, AuthorFH, IsbnA, 2>>, <<TitleEmmaPadded, AuthorJA, IsbnA, 1>>,
     <<TitleEmmaPadded, AuthorJA, IsbnB, 3>>, <<TitleDune, AuthorFH, IsbnAlpha, 1>>,
     <<TitleDune, AuthorFH, IsbnShort, 1>>, <<Blank, AuthorFH, IsbnB, 1>>,
     <<TitleDune, AuthorFH, IsbnB, 0>>}

(***************************************************************************)
(* Time.                                                                   *)
(***************************************************************************)
\* datetime.date(): the calendar day of a timestamp
DateOf(t) == t \div TicksPerDay

\* timedelta(days=n)
Days(n) == n * TicksPerDay

(***************************************************************************)
(* The catalog store: reads.                                               *)
(***************************************************************************)
BookIds == 1..Len(books)
BookIdInputs == {1, 2}
RecordIds == 1..Len(records)

\* a row of borrow_records is active while return_date IS NULL
IsActive(r) == r.return_date = <<>>

\* get_book_by_id returns a row (not None)
BookExists(b) == b \in BookIds

\* ORDER BY title: the listings of the books S by title; books with equal
\* titles come in no specified order
RECURSIVE ByTitle(_)
ByTitle(S) ==
    IF S = {} THEN {<<>>}
    ELSE UNION {{<<b>> \o rest : rest \in ByTitle(S \ {b})} :
                  b \in {b \in S : \A c \in S :
                            ~StrLess(books[c].title, books[b].title)}}

\* get_all_books: the listings the query may return
get_all_books == ByTitle(BookIds)

\* fault: the lookup compares the isbn with the title column
get_book_by_isbn_in_title(isbn) == {b \in BookIds : books[b].title = isbn}

\* get_book_by_isbn: the ids of the rows with that isbn
get_book_by_isbn(isbn) == {b \in BookIds : books[b].isbn = isbn}

\* the rows matched by WHERE patron_id = ? AND book_id = ? AND return_date IS NULL
ActiveIds(p, b) ==
    {i \in RecordIds : records[i].patron_id = p /\ records[i].book_id = b
                         /\ IsActive(records[i])}

\* fault: the lookup forgets `patron_id = ?` and matches any patron's loan
get_active_borrow_any_patron(p, b) ==
    {i \in RecordIds : records[i].book_id = b /\ IsActive(records[i])}

\* fault: the lookup forgets `return_date IS NULL`
get_active_borrow_with_returned(p, b) ==
    LET rows == {i \in RecordIds : records[i].patron_id = p /\ records[i].book_id = b}
    IN  {i \in rows : \A j \in rows : records[j].borrow_date <= records[i].borrow_date}

\* get_active_borrow: ORDER BY borrow_date DESC LIMIT 1; rows with equal
\* borrow_date are returned in no specified order, so any of them may be the row
get_active_borrow(p, b) ==
    {i \in ActiveIds(p, b) :
        \A j \in ActiveIds(p, b) : records[j].borrow_date <= records[i].borrow_date}

\* ORDER BY borrow_date: the listings of the rows S, oldest first; rows with
\* equal borrow_date come in no specified order
RECURSIVE OldestFirst(_)
OldestFirst(S) ==
    IF S = {} THEN {<<>>}
    ELSE UNION {{<<i>> \o rest : rest \in OldestFirst(S \ {i})} :
                  i \in {i \in S : \A j \in S :
                            records[i].borrow_date <= records[j].borrow_date}}

\* ORDER BY borrow_date DESC: the listings of the rows S, newest first
RECURSIVE NewestFirst(_)
NewestFirst(S) ==
    IF S = {} THEN {<<>>}
    ELSE UNION {{<<i>> \o rest : rest \in NewestFirst(S \ {i})} :
                  i \in {i \in S : \A j \in S :
                            records[i].borrow_date >= records[j].borrow_date}}

\* fault: the query forgets `br.return_date IS NULL`
get_patron_borrowed_books_with_returned(p) ==
    OldestFirst({i \in RecordIds : records[i].patron_id = p
                                     /\ records[i].book_id \in BookIds})

\* get_patron_borrowed_books: the listings the query may return, each a
\* sequence of the patron's active rows joined with their books
get_patron_borrowed_books(p) ==
    OldestFirst({i \in RecordIds : records[i].patron_id = p /\ IsActive(records[i])
                                     /\ records[i].book_id \in BookIds})

\* get_patron_borrowed_books: 'is_overdue', a comparison of timestamps
is_overdue(i) == now > records[i].due_date

\* fault: the history is ordered by borrow_date ascending
get_patron_borrow_history_oldest_first(p) ==
    OldestFirst({i \in RecordIds : records[i].patron_id = p
                                     /\ records[i].book_id \in BookIds})

\* get_patron_borrow_history: the listings the query may return, each a
\* sequence of all the patron's rows joined with their books
get_patron_borrow_history(p) ==
    NewestFirst({i \in RecordIds : records[i].patron_id = p
                                     /\ records[i].book_id \in BookIds})

\* get_patron_borrow_count
get_patron_borrow_count(p) ==
    Cardinality({i \in RecordIds : records[i].patron_id = p /\ IsActive(records[i])})

\* fault: the limit test is written `> 5`
AtBorrowLimitOffByOne(p) == get_patron_borrow_count(p) > MaxLoans

\* borrow_book_by_patron: `get_patron_borrow_count(patron_id) >= 5`
AtBorrowLimit(p) == get_patron_borrow_count(p) >= MaxLoans

(***************************************************************************)
(* The catalog store: writes.  Each returns the table after the write.     *)
(***************************************************************************)
\* fault: the available_copies column is left at its default of 0
insert_book_none_available(title, author, isbn, total, avail) ==
    Append(books, [title |-> title, author |-> author, isbn |-> isbn,
                   total_copies |-> total, available_copies |-> 0])

\* insert_book
insert_book(title, author, isbn, total, avail) ==
    Append(books, [title |-> title, author |-> author, isbn |-> isbn,
                   total_copies |-> total, available_copies |-> avail])

\* fault: a re-borrow reopens the pair's returned row instead of inserting one
insert_borrow_record_reopen(p, b, borrow_date, due_date) ==
    LET old == {i \in RecordIds : records[i].patron_id = p /\ records[i].book_id = b
                                     /\ ~IsActive(records[i])}
    IN  IF old = {}
        THEN Append(records, [patron_id |-> p, book_id |-> b,
                              borrow_date |-> borrow_date, due_date |-> due_date,
                              return_date |-> <<>>])
        ELSE [records EXCEPT ![CHOOSE i \in old : TRUE] =
                 [@ EXCEPT !.borrow_date = borrow_date, !.due_date = due_date,
                           !.return_date = <<>>]]

\* insert_borrow_record: a new row with return_date NULL
insert_borrow_record(p, b, borrow_date, due_date) ==
    Append(records, [patron_id |-> p, book_id |-> b, borrow_date |-> borrow_date,
                     due_date |-> due_date, return_date |-> <<>>])

\* fault: the UPDATE forgets `WHERE id = ?` and adjusts every book
update_book_availability_all(b, change) ==
    [x \in BookIds |-> [books[x] EXCEPT !.available_copies = @ + change]]

\* update_book_availability
update_book_availability(b, change) ==
    [books EXCEPT ![b].available_copies = @ + change]

\* fault: the UPDATE is never committed, the rows stay as they were
update_borrow_record_return_date_lost(p, b, return_date) == records

\* update_borrow_record_return_date: every row matched by the WHERE clause
update_borrow_record_return_date(p, b, return_date) ==
    [i \in RecordIds |->
        IF i \in ActiveIds(p, b)
        THEN [records[i] EXCEPT !.return_date = <<return_date>>]
        ELSE records[i]]

(***************************************************************************)
(* Responses.                                                              *)
(***************************************************************************)
Reply(op, p, b, ok, msg, fee, days) ==
    [op |-> op, patron |-> p, book |-> b, ok |-> ok, msg |-> msg,
     fee |-> fee, days |-> days]

NoReply == Reply("none", NoPatron, 0, FALSE, "", 0, 0)

\* a store write a call made, and whether it was committed
Wrote(write, committed) == [write |-> write, committed |-> committed]

\* the reply of a call together with the store writes it attempted, in order
Called(reply, writes) ==
    [op |-> reply.op, patron |-> reply.patron, book |-> reply.book,
     ok |-> reply.ok, msg |-> reply.msg, fee |-> reply.fee, days |-> reply.days,
     writes |-> writes]

MsgInvalidPatron == "Invalid patron ID. Must be exactly 6 digits."
MsgInvalidPatronReturn == "Invalid patron ID (need 6 digits)."
MsgBookNotFound == "Book not found."
MsgNotAvailable == "This book is currently not available."
MsgLimit == "You have reached the maximum borrowing limit of 5 books."
MsgInsertFailed == "Database error occurred while creating borrow record."
MsgAvailFailed == "Database error occurred while updating book availability."
MsgBorrowed == "Successfully borrowed"
MsgNoLoan == "No active loan for this patron and book."
MsgReturnFailed == "Couldn't record the return in the database."
MsgReturnAvailFailed == "Couldn't update book availability."
MsgReturnFee == "Return complete. Late fee"
MsgReturnNoFee == "Return complete. No fee."

(***************************************************************************)
(* Fee Policy.                                                             *)
(***************************************************************************)
Min(a, b) == IF a <= b THEN a ELSE b
Max(a, b) == IF a >= b THEN a ELSE b

\* fault: a started day counts as a whole day late, by the clock not the calendar
DaysLateByClock(due, t) ==
    IF t > due THEN Max(1, DateOf(t) - DateOf(due)) ELSE DateOf(t) - DateOf(due)

\* calculate_late_fee_for_book: (today - due_dt.date()).days
DaysLate(due, t) == DateOf(t) - DateOf(due)

\* fault: the cap is forgotten
TieredFeeUncapped(days_late) ==
    Min(days_late, FirstBlockDays) * FirstBlockCents
        + Max(0, days_late - FirstBlockDays) * LaterBlockCents

\* calculate_late_fee_for_book: the tiered, capped fee for days_late > 0
TieredFee(days_late) ==
    Min(Min(days_late, FirstBlockDays) * FirstBlockCents
          + Max(0, days_late - FirstBlockDays) * LaterBlockCents,
        FeeCapCents)

\* return_book_by_patron: the fee stated in the return message
ReturnFee(due, t) ==
    IF DateOf(t) > DateOf(due) THEN (DateOf(t) - DateOf(due)) * LATE_FEE_CENTS ELSE 0

(***************************************************************************)
(* Operations.                                                             *)
(***************************************************************************)
Init ==
    /\ books = <<>>
    /\ records = <<>>
    /\ now = 0
    /\ resp = NoReply

\* add_book_to_catalog; store: the outcomes a store write may have (TRUE: the
\* write is committed, FALSE: it fails and changes nothing)
AddBook(title, author, isbn, copies, store) ==
    LET say(ok, msg) == Reply("add_book", NoPatron, 0, ok, msg, 0, 0)
    IN  /\ UNCHANGED <<records, now>>
        /\ IF title = <<>> \/ Strip(title) = <<>>
           THEN resp' = say(FALSE, "Title is required.") /\ UNCHANGED books
           ELSE IF Len(Strip(title)) > MaxTitleLen
           THEN resp' = say(FALSE, "Title must be less than 200 characters.")
                /\ UNCHANGED books
           ELSE IF author = <<>> \/ Strip(author) = <<>>
           THEN resp' = say(FALSE, "Author is required.") /\ UNCHANGED books
           ELSE IF Len(Strip(author)) > MaxAuthorLen
           THEN resp' = say(FALSE, "Author must be less than 100 characters.")
                /\ UNCHANGED books
           ELSE IF Len(isbn) # IsbnLen
           THEN resp' = say(FALSE, "ISBN must be exactly 13 digits.")
                /\ UNCHANGED books
           ELSE IF copies <= 0
           THEN resp' = say(FALSE, "Total copies must be a positive integer.")
                /\ UNCHANGED books
           ELSE IF get_book_by_isbn(isbn) # {}
           THEN resp' = say(FALSE, "A book with this ISBN already exists.")
                /\ UNCHANGED books
           ELSE \E insOk \in store :
                IF insOk
                THEN /\ books' = insert_book(Strip(title), Strip(author), isbn,
                                             copies, copies)
                     /\ resp' = say(TRUE, "has been successfully added to the catalog.")
                ELSE /\ resp' = say(FALSE, "Database error occurred while adding the book.")
                     /\ UNCHANGED books

\* fault: the borrowing limit is tested before the book's availability
BorrowLimitFirst(p, b, store) ==
    LET say(ok, msg, writes) == Called(Reply("borrow", p, b, ok, msg, 0, 0), writes)
        due_date == now + Days(LoanDays)
    IN  /\ UNCHANGED now
        /\ IF ~ValidPatronId(p)
           THEN resp' = say(FALSE, MsgInvalidPatron, <<>>)
                /\ UNCHANGED <<books, records>>
           ELSE IF ~BookExists(b)
           THEN resp' = say(FALSE, MsgBookNotFound, <<>>)
                /\ UNCHANGED <<books, records>>
           ELSE IF AtBorrowLimit(p)
           THEN resp' = say(FALSE, MsgLimit, <<>>) /\ UNCHANGED <<books, records>>
           ELSE IF books[b].available_copies <= 0
           THEN resp' = say(FALSE, MsgNotAvailable, <<>>)
                /\ UNCHANGED <<books, records>>
           ELSE \E insOk \in store :
                IF ~insOk
                THEN resp' = say(FALSE, MsgInsertFailed, <<Wrote("insert", FALSE)>>)
                     /\ UNCHANGED <<books, records>>
                ELSE /\ records' = insert_borrow_record(p, b, now, due_date)
                     /\ \E updOk \in store :
                        IF ~updOk
                        THEN resp' = say(FALSE, MsgAvailFailed,
                                         <<Wrote("insert", TRUE),
                                           Wrote("availability", FALSE)>>)
                             /\ UNCHANGED books
                        ELSE /\ books' = update_book_availability(b, -1)
                             /\ resp' = say(TRUE, MsgBorrowed,
                                            <<Wrote("insert", TRUE),
                                              Wrote("availability", TRUE)>>)

\* fault: the availability update is attempted even after the insert failed
BorrowAttemptsBoth(p, b, store) ==
    LET say(ok, msg, writes) == Called(Reply("borrow", p, b, ok, msg, 0, 0), writes)
        due_date == now + Days(LoanDays)
    IN  /\ UNCHANGED now
        /\ IF ~ValidPatronId(p)
           THEN resp' = say(FALSE, MsgInvalidPatron, <<>>)
                /\ UNCHANGED <<books, records>>
           ELSE IF ~BookExists(b)
           THEN resp' = say(FALSE, MsgBookNotFound, <<>>)
                /\ UNCHANGED <<books, records>>
           ELSE IF books[b].available_copies <= 0
           THEN resp' = say(FALSE, MsgNotAvailable, <<>>)
                /\ UNCHANGED <<books, records>>
           ELSE IF AtBorrowLimit(p)
           THEN resp' = say(FALSE, MsgLimit, <<>>) /\ UNCHANGED <<books, records>>
           ELSE \E insOk \in store, updOk \in store :
                /\ records' = IF insOk THEN insert_borrow_record(p, b, now, due_date)
                                       ELSE records
                /\ books' = IF updOk THEN update_book_availability(b, -1) ELSE books
                /\ resp' = say(insOk /\ updOk,
                               IF ~insOk THEN MsgInsertFailed
                               ELSE IF ~updOk THEN MsgAvailFailed ELSE MsgBorrowed,
                               <<Wrote("insert", insOk), Wrote("availability", updOk)>>)

\* borrow_book_by_patron
Borrow(p, b, store) ==
    LET say(ok, msg, writes) == Called(Reply("borrow", p, b, ok, msg, 0, 0), writes)
        due_date == now + Days(LoanDays)
    IN  /\ UNCHANGED now
        /\ IF ~ValidPatronId(p)
           THEN resp' = say(FALSE, MsgInvalidPatron, <<>>)
                /\ UNCHANGED <<books, records>>
           ELSE IF ~BookExists(b)
           THEN resp' = say(FALSE, MsgBookNotFound, <<>>)
                /\ UNCHANGED <<books, records>>
           ELSE IF books[b].available_copies <= 0
           THEN resp' = say(FALSE, MsgNotAvailable, <<>>)
                /\ UNCHANGED <<books, records>>
           ELSE IF AtBorrowLimit(p)
           THEN resp' = say(FALSE, MsgLimit, <<>>) /\ UNCHANGED <<books, records>>
           ELSE \E insOk \in store :
                IF ~insOk
                THEN resp' = say(FALSE, MsgInsertFailed, <<Wrote("insert", FALSE)>>)
                     /\ UNCHANGED <<books, records>>
                ELSE /\ records' = insert_borrow_record(p, b, now, due_date)
                     /\ \E updOk \in store :
                        IF ~updOk
                        THEN resp' = say(FALSE, MsgAvailFailed,
                                         <<Wrote("insert", TRUE),
                                           Wrote("availability", FALSE)>>)
                             /\ UNCHANGED books
                        ELSE /\ books' = update_book_availability(b, -1)
                             /\ resp' = say(TRUE, MsgBorrowed,
                                            <<Wrote("insert", TRUE),
                                              Wrote("availability", TRUE)>>)

\* fault: the availability update is attempted even after the return-date
\* write failed
ReturnAttemptsBoth(p, b, store) ==
    LET say(ok, msg, fee, writes) ==
            Called(Reply("return", p, b, ok, msg, fee, 0), writes)
    IN  /\ UNCHANGED now
        /\ IF ~ValidPatronId(p)
           THEN resp' = say(FALSE, MsgInvalidPatronReturn, 0, <<>>)
                /\ UNCHANGED <<books, records>>
           ELSE IF ~BookExists(b)
           THEN resp' = say(FALSE, MsgBookNotFound, 0, <<>>)
                /\ UNCHANGED <<books, records>>
           ELSE IF get_active_borrow(p, b) = {}
           THEN resp' = say(FALSE, MsgNoLoan, 0, <<>>) /\ UNCHANGED <<books, records>>
           ELSE \E loan \in get_active_borrow(p, b), setOk \in store, updOk \in store :
                LET fee_cents == ReturnFee(records[loan].due_date, now)
                IN  /\ records' = IF setOk
                                  THEN update_borrow_record_return_date(p, b, now)
                                  ELSE records
                    /\ books' = IF updOk THEN update_book_availability(b, 1) ELSE books
                    /\ resp' = say(setOk /\ updOk,
                                   IF ~setOk THEN MsgReturnFailed
                                   ELSE IF ~updOk THEN MsgReturnAvailFailed
                                   ELSE IF fee_cents > 0 THEN MsgReturnFee
                                   ELSE MsgReturnNoFee,
                                   IF setOk /\ updOk THEN fee_cents ELSE 0,
                                   <<Wrote("return_date", setOk),
                                     Wrote("availability", updOk)>>)

\* return_book_by_patron
Return(p, b, store) ==
    LET say(ok, msg, fee, writes) ==
            Called(Reply("return", p, b, ok, msg, fee, 0), writes)
    IN  /\ UNCHANGED now
        /\ IF ~ValidPatronId(p)
           THEN resp' = say(FALSE, MsgInvalidPatronReturn, 0, <<>>)
                /\ UNCHANGED <<books, records>>
           ELSE IF ~BookExists(b)
           THEN resp' = say(FALSE, MsgBookNotFound, 0, <<>>)
                /\ UNCHANGED <<books, records>>
           ELSE IF get_active_borrow(p, b) = {}
           THEN resp' = say(FALSE, MsgNoLoan, 0, <<>>) /\ UNCHANGED <<books, records>>
           ELSE \E loan \in get_active_borrow(p, b), setOk \in store :
                LET fee_cents == ReturnFee(records[loan].due_date, now)
                IN  IF ~setOk
                    THEN resp' = say(FALSE, MsgReturnFailed, 0,
                                     <<Wrote("return_date", FALSE)>>)
                         /\ UNCHANGED <<books, records>>
                    ELSE /\ records' = update_borrow_record_return_date(p, b, now)
                         /\ \E updOk \in store :
                            IF ~updOk
                            THEN resp' = say(FALSE, MsgReturnAvailFailed, 0,
                                             <<Wrote("return_date", TRUE),
                                               Wrote("availability", FALSE)>>)
                                 /\ UNCHANGED books
                            ELSE /\ books' = update_book_availability(b, 1)
                                 /\ resp' = say(TRUE,
                                                IF fee_cents > 0 THEN MsgReturnFee
                                                                 ELSE MsgReturnNoFee,
                                                fee_cents,
                                                <<Wrote("return_date", TRUE),
                                                  Wrote("availability", TRUE)>>)

\* calculate_late_fee_for_book, from the parsed due date on
Quote(due, t) ==
    LET days_late == DaysLate(due, t)
    IN  IF days_late <= 0
        THEN [fee |-> 0, days |-> 0, status |-> "on time"]
        ELSE [fee |-> TieredFee(days_late), days |-> days_late, status |-> "overdue"]

\* calculate_late_fee_for_book
LateFee(p, b) ==
    LET say(status, fee, days) == Reply("late_fee", p, b, TRUE, status, fee, days)
    IN  /\ UNCHANGED <<books, records, now>>
        /\ IF ~ValidPatronId(p)
           THEN resp' = say("Invalid patron ID", 0, 0)
           ELSE IF ~BookExists(b)
           THEN resp' = say("Book not found", 0, 0)
           ELSE IF get_active_borrow(p, b) = {}
           THEN resp' = say("No active loan", 0, 0)
           ELSE \E loan \in get_active_borrow(p, b) :
                LET q == Quote(records[loan].due_date, now)
                IN  resp' = say(q.status, q.fee, q.days)

\* calculate_late_fee_for_book: the quotes the call may return (one for each
\* row get_active_borrow may pick)
calculate_late_fee_for_book(p, b) ==
    IF ~ValidPatronId(p)
    THEN {[fee |-> 0, days |-> 0, status |-> "Invalid patron ID"]}
    ELSE IF ~BookExists(b)
    THEN {[fee |-> 0, days |-> 0, status |-> "Book not found"]}
    ELSE IF get_active_borrow(p, b) = {}
    THEN {[fee |-> 0, days |-> 0, status |-> "No active loan"]}
    ELSE {Quote(records[loan].due_date, now) : loan \in get_active_borrow(p, b)}

\* sum(fees) of a sequence of amounts
RECURSIVE SumSeq(_)
SumSeq(fees) == IF fees = <<>> THEN 0 ELSE Head(fees) + SumSeq(Tail(fees))

\* the report returned by get_patron_status_report
Report(p, status, borrowed_now, late_fees, history) ==
    [op |-> "status", patron |-> p, status |-> status,
     borrowed_now |-> borrowed_now, active_count |-> Len(borrowed_now),
     late_fees |-> late_fees, history |-> history]

\* get_patron_status_report
StatusReport(p) ==
    LET pid == Strip(p)
    IN  /\ UNCHANGED <<books, records, now>>
        /\ IF ~(IsDigit(pid) /\ Len(pid) = PatronIdLen)
           THEN resp' = Report(p, "Invalid patron ID", <<>>, Format2(0), <<>>)
           ELSE \E active_rows \in get_patron_borrowed_books(pid),
                   hist_rows \in get_patron_borrow_history(pid) :
                LET fee_amounts(k) ==
                        {q.fee : q \in calculate_late_fee_for_book(
                                           pid, records[active_rows[k]].book_id)}
                    borrowed_now ==
                        [k \in 1..Len(active_rows) |->
                            LET row == records[active_rows[k]]
                            IN  [book_id |-> row.book_id,
                                 title |-> books[row.book_id].title,
                                 author |-> books[row.book_id].author,
                                 due_date |-> DateOf(row.due_date),
                                 overdue |-> is_overdue(active_rows[k])]]
                    history ==
                        [k \in 1..Len(hist_rows) |->
                            LET r == records[hist_rows[k]]
                            IN  [book_id |-> r.book_id,
                                 title |-> books[r.book_id].title,
                                 author |-> books[r.book_id].author,
                                 borrow_date |-> r.borrow_date,
                                 due_date |-> r.due_date,
                                 return_date |-> r.return_date]]
                IN  \E fees \in {f \in [1..Len(active_rows) ->
                                          UNION {fee_amounts(k) :
                                                   k \in 1..Len(active_rows)}] :
                                     \A k \in 1..Len(active_rows) :
                                         f[k] \in fee_amounts(k)} :
                        resp' = Report(p, "ok", borrowed_now,
                                       Format2(SumSeq(fees)), history)

\* fault: an isbn search matches every book whose isbn begins with the term
SearchIsbnPrefix(term, kind) ==
    LET field == Casefold(Strip(kind))
        query == Strip(term)
        say(rows) == [op |-> "search", term |-> term, kind |-> kind, rows |-> rows]
    IN  /\ UNCHANGED <<books, records, now>>
        /\ IF query = <<>> \/ field \notin {KindTitle, KindAuthor, KindIsbn}
           THEN resp' = say(<<>>)
           ELSE IF field = KindIsbn
           THEN \E shelf \in get_all_books :
                LET match(b) == StartsWith(books[b].isbn, query)
                IN  resp' = say(SelectSeq(shelf, match))
           ELSE \E shelf \in get_all_books :
                LET needle == Casefold(query)
                    text(b) == IF field = KindTitle THEN books[b].title
                                                    ELSE books[b].author
                    match(b) == Contains(Casefold(text(b)), needle)
                IN  resp' = say(SelectSeq(shelf, match))

\* search_books_in_catalog; rows: the ids of the books returned, in order
Search(term, kind) ==
    LET field == Casefold(Strip(kind))
        query == Strip(term)
        say(rows) == [op |-> "search", term |-> term, kind |-> kind, rows |-> rows]
    IN  /\ UNCHANGED <<books, records, now>>
        /\ IF query = <<>> \/ field \notin {KindTitle, KindAuthor, KindIsbn}
           THEN resp' = say(<<>>)
           ELSE IF field = KindIsbn
           THEN IF Len(query) # IsbnLen \/ ~IsDigit(query)
                THEN resp' = say(<<>>)
                ELSE IF get_book_by_isbn(query) = {}
                THEN resp' = say(<<>>)
                ELSE \E hit \in get_book_by_isbn(query) : resp' = say(<<hit>>)
           ELSE \E shelf \in get_all_books :
                LET needle == Casefold(query)
                    text(b) == IF field = KindTitle THEN books[b].title
                                                    ELSE books[b].author
                    match(b) == Contains(Casefold(text(b)), needle)
                IN  resp' = say(SelectSeq(shelf, match))

\* The payment gateway is an external collaborator; its contract is
\* process_payment(patron_id, amount, description) -> (success,
\* transaction_id | None, message) and refund_payment(transaction_id, amount)
\* -> (success, message), and either may raise.  outcome selects what one call
\* does; <<>> stands for None.
process_payment(outcome) ==
    [raised         |-> outcome = "raises",
     success        |-> outcome = "success",
     transaction_id |-> IF outcome = "success" THEN <<TxnId>> ELSE <<>>,
     message        |-> IF outcome = "success" THEN "Approved" ELSE "Declined"]

refund_payment(outcome) ==
    [raised  |-> outcome = "raises",
     success |-> outcome = "success",
     message |-> IF outcome = "success" THEN "Refund processed" ELSE "Refused"]

\* fault: a successful payment also closes the loan it paid for
PayLateFeesClosesLoan(p, b, gateway) ==
    LET say(ok, msg, txn, calls, amount) ==
            [op |-> "pay", patron |-> p, book |-> b, ok |-> ok, msg |-> msg,
             txn |-> txn, calls |-> calls, amount |-> amount]
    IN  /\ UNCHANGED <<books, now>>
        /\ IF ~ValidPatronId(p)
           THEN resp' = say(FALSE, MsgInvalidPatron, <<>>, 0, 0) /\ UNCHANGED records
           ELSE \E fee_info \in calculate_late_fee_for_book(p, b) :
                IF fee_info.fee <= 0
                THEN resp' = say(FALSE, "No late fees to pay for this book.", <<>>, 0, 0)
                     /\ UNCHANGED records
                ELSE IF ~BookExists(b)
                THEN resp' = say(FALSE, MsgBookNotFound, <<>>, 0, 0) /\ UNCHANGED records
                ELSE \E outcome \in gateway :
                     LET paid == process_payment(outcome)
                     IN  IF paid.raised
                         THEN resp' = say(FALSE, "Payment processing error", <<>>, 1,
                                          fee_info.fee)
                              /\ UNCHANGED records
                         ELSE IF paid.success
                         THEN /\ resp' = say(TRUE, "Payment successful!",
                                             paid.transaction_id, 1, fee_info.fee)
                              /\ records' = update_borrow_record_return_date(p, b, now)
                         ELSE resp' = say(FALSE, "Payment failed", <<>>, 1,
                                          fee_info.fee)
                              /\ UNCHANGED records

\* fault: a fee of zero is sent to the gateway like any other
PayLateFeesChargesZero(p, b, gateway) ==
    LET say(ok, msg, txn, calls, amount) ==
            [op |-> "pay", patron |-> p, book |-> b, ok |-> ok, msg |-> msg,
             txn |-> txn, calls |-> calls, amount |-> amount]
    IN  /\ UNCHANGED <<books, records, now>>
        /\ IF ~ValidPatronId(p)
           THEN resp' = say(FALSE, MsgInvalidPatron, <<>>, 0, 0)
           ELSE \E fee_info \in calculate_late_fee_for_book(p, b) :
                IF fee_info.fee < 0
                THEN resp' = say(FALSE, "No late fees to pay for this book.", <<>>, 0, 0)
                ELSE IF ~BookExists(b)
                THEN resp' = say(FALSE, MsgBookNotFound, <<>>, 0, 0)
                ELSE \E outcome \in gateway :
                     LET paid == process_payment(outcome)
                     IN  IF paid.raised
                         THEN resp' = say(FALSE, "Payment processing error", <<>>, 1,
                                          fee_info.fee)
                         ELSE IF paid.success
                         THEN resp' = say(TRUE, "Payment successful!",
                                          paid.transaction_id, 1, fee_info.fee)
                         ELSE resp' = say(FALSE, "Payment failed", <<>>, 1,
                                          fee_info.fee)

\* fault: a gateway exception is answered by calling the gateway a second time
PayLateFeesRetries(p, b, gateway) ==
    LET say(ok, msg, txn, calls, amount) ==
            [op |-> "pay", patron |-> p, book |-> b, ok |-> ok, msg |-> msg,
             txn |-> txn, calls |-> calls, amount |-> amount]
    IN  /\ UNCHANGED <<books, records, now>>
        /\ IF ~ValidPatronId(p)
           THEN resp' = say(FALSE, MsgInvalidPatron, <<>>, 0, 0)
           ELSE \E fee_info \in calculate_late_fee_for_book(p, b) :
                IF fee_info.fee <= 0
                THEN resp' = say(FALSE, "No late fees to pay for this book.", <<>>, 0, 0)
                ELSE IF ~BookExists(b)
                THEN resp' = say(FALSE, MsgBookNotFound, <<>>, 0, 0)
                ELSE \E outcome \in gateway :
                     LET paid == process_payment(outcome)
                         again == process_payment("success")
                     IN  IF paid.raised
                         THEN resp' = say(TRUE, "Payment successful!",
                                          again.transaction_id, 2, fee_info.fee)
                         ELSE IF paid.success
                         THEN resp' = say(TRUE, "Payment successful!",
                                          paid.transaction_id, 1, fee_info.fee)
                         ELSE resp' = say(FALSE, "Payment failed", <<>>, 1,
                                          fee_info.fee)

\* pay_late_fees; gateway: what the call of process_payment may do.  txn: the
\* transaction id returned (<<>> for None); calls: the number of gateway calls
PayLateFees(p, b, gateway) ==
    LET say(ok, msg, txn, calls, amount) ==
            [op |-> "pay", patron |-> p, book |-> b, ok |-> ok, msg |-> msg,
             txn |-> txn, calls |-> calls, amount |-> amount]
    IN  /\ UNCHANGED <<books, records, now>>
        /\ IF ~ValidPatronId(p)
           THEN resp' = say(FALSE, MsgInvalidPatron, <<>>, 0, 0)
           ELSE \E fee_info \in calculate_late_fee_for_book(p, b) :
                IF fee_info.fee <= 0
                THEN resp' = say(FALSE, "No late fees to pay for this book.", <<>>, 0, 0)
                ELSE IF ~BookExists(b)
                THEN resp' = say(FALSE, MsgBookNotFound, <<>>, 0, 0)
                ELSE \E outcome \in gateway :
                     LET paid == process_payment(outcome)
                     IN  IF paid.raised
                         THEN resp' = say(FALSE, "Payment processing error", <<>>, 1,
                                          fee_info.fee)
                         ELSE IF paid.success
                         THEN resp' = say(TRUE, "Payment successful!",
                                          paid.transaction_id, 1, fee_info.fee)
                         ELSE resp' = say(FALSE, "Payment failed", <<>>, 1,
                                          fee_info.fee)

\* fault: a refund of exactly the maximum late fee is turned away
RefundRejectsCap(txn, amount, gateway) ==
    LET say(ok, msg, calls) ==
            [op |-> "refund", txn |-> txn, amount |-> amount, ok |-> ok,
             msg |-> msg, calls |-> calls]
    IN  /\ UNCHANGED <<books, records, now>>
        /\ IF txn = <<>> \/ ~StartsWith(txn, <<"t", "x", "n", "_">>)
           THEN resp' = say(FALSE, "Invalid transaction ID.", 0)
           ELSE IF amount <= 0
           THEN resp' = say(FALSE, "Refund amount must be greater than 0.", 0)
           ELSE IF amount >= MaxRefundCents
           THEN resp' = say(FALSE, "Refund amount exceeds maximum late fee.", 0)
           ELSE \E outcome \in gateway :
                LET refunded == refund_payment(outcome)
                IN  IF refunded.raised
                    THEN resp' = say(FALSE, "Refund processing error", 1)
                    ELSE IF refunded.success
                    THEN resp' = say(TRUE, refunded.message, 1)
                    ELSE resp' = say(FALSE, "Refund failed", 1)

\* refund_late_fee_payment; amount in cents
Refund(txn, amount, gateway) ==
    LET say(ok, msg, calls) ==
            [op |-> "refund", txn |-> txn, amount |-> amount, ok |-> ok,
             msg |-> msg, calls |-> calls]
    IN  /\ UNCHANGED <<books, records, now>>
        /\ IF txn = <<>> \/ ~StartsWith(txn, <<"t", "x", "n", "_">>)
           THEN resp' = say(FALSE, "Invalid transaction ID.", 0)
           ELSE IF amount <= 0
           THEN resp' = say(FALSE, "Refund amount must be greater than 0.", 0)
           ELSE IF amount > MaxRefundCents
           THEN resp' = say(FALSE, "Refund amount exceeds maximum late fee.", 0)
           ELSE \E outcome \in gateway :
                LET refunded == refund_payment(outcome)
                IN  IF refunded.raised
                    THEN resp' = say(FALSE, "Refund processing error", 1)
                    ELSE IF refunded.success
                    THEN resp' = say(TRUE, refunded.message, 1)
                    ELSE resp' = say(FALSE, "Refund failed", 1)

\* the clock advances between calls, up to a horizon
Tick(horizon) ==
    /\ now < horizon
    /\ now' = now + 1
    /\ resp' = NoReply
    /\ UNCHANGED <<books, records>>

\* a store write either commits or fails
StoreOutcomes == BOOLEAN

(***************************************************************************)
(* The library from an empty database: catalog and lending calls.          *)
(***************************************************************************)
Next ==
    \/ \E in \in AddBookInputs : AddBook(in[1], in[2], in[3], in[4], StoreOutcomes)
    \/ \E p \in PatronInputs, b \in BookIdInputs :
          Borrow(p, b, StoreOutcomes) /\ Len(records') <= MaxRecords
    \/ \E p \in PatronInputs, b \in BookIdInputs : Return(p, b, StoreOutcomes)

Spec == Init /\ [][Next]_vars

(***************************************************************************)
(* One loan followed through time: a book is added and borrowed on day 0,  *)
(* at any time of that day, and the clock runs on past the due date.       *)
(***************************************************************************)
\* the last tick of the day MaxLateDays days past the latest due date
FeeHorizon == Days(LoanDays + MaxLateDays + 1) - 1

InitFee ==
    /\ \E t \in 0..(TicksPerDay - 1) :
          /\ now = t
          /\ records = <<[patron_id |-> P1, book_id |-> 1, borrow_date |-> t,
                          due_date |-> t + Days(LoanDays), return_date |-> <<>>]>>
    /\ books = <<[title |-> TitleDune, author |-> AuthorFH, isbn |-> IsbnA,
                  total_copies |-> 1, available_copies |-> 0]>>
    /\ resp = NoReply

NextFee ==
    \/ \E p \in Patrons, b \in BookIdInputs : LateFee(p, b)
    \/ \E p \in Patrons, b \in BookIdInputs : Return(p, b, StoreOutcomes)
    \/ Tick(FeeHorizon)

SpecFee == InitFee /\ [][NextFee]_vars

(***************************************************************************)
(* The same loan seen in the patron's status report as the clock runs.     *)
(***************************************************************************)
NextOverdue ==
    \/ \E p \in Patrons : StatusReport(p)
    \/ Tick(FeeHorizon)

SpecOverdue == InitFee /\ [][NextOverdue]_vars

(***************************************************************************)
(* The same calls with a store that never fails.                           *)
(***************************************************************************)
NextReliable ==
    \/ \E in \in AddBookInputs : AddBook(in[1], in[2], in[3], in[4], {TRUE})
    \/ \E p \in PatronInputs, b \in BookIdInputs :
          Borrow(p, b, {TRUE}) /\ Len(records') <= MaxRecords
    \/ \E p \in PatronInputs, b \in BookIdInputs : Return(p, b, {TRUE})

SpecReliable == Init /\ [][NextReliable]_vars

(***************************************************************************)
(* The reliable store with a clock that advances between calls, so that    *)
(* borrow and return timestamps differ.                                    *)
(***************************************************************************)
NextTimed ==
    \/ NextReliable
    \/ Tick(MaxNow)

SpecTimed == Init /\ [][NextTimed]_vars

(***************************************************************************)
(* The catalog desk: books are added to an empty catalog and the catalog   *)
(* is searched; the store does not fail.                                   *)
(***************************************************************************)
NextCatalog ==
    \/ \E in \in CatalogInputs : AddBook(in[1], in[2], in[3], in[4], {TRUE})
    \/ \E in \in SearchInputs : Search(in[1], in[2])

SpecCatalog == Init /\ [][NextCatalog]_vars

(***************************************************************************)
(* The status desk.  Three books of two copies each; the first patron      *)
(* borrowed one copy of each on three different days, and today the first  *)
(* loan is long overdue, the second a few days overdue and the third not   *)
(* yet due.  Calls are made today; the store does not fail.                *)
(***************************************************************************)
\* the days on which the three loans were taken out, and today
ReportBorrowDays == <<0, 22, 36>>
ReportToday == 40

ReportBookInputs == 1..4
ReportPatronInputs == {P1, P2, PAlpha, PShort, PPadded}

InitReport ==
    /\ books = <<[title |-> TitleDune, author |-> AuthorFH, isbn |-> IsbnA,
                  total_copies |-> 2, available_copies |-> 1],
                 [title |-> TitleEmma, author |-> AuthorJA, isbn |-> IsbnB,
                  total_copies |-> 2, available_copies |-> 1],
                 [title |-> TitleUbik, author |-> AuthorPD, isbn |-> IsbnC,
                  total_copies |-> 2, available_copies |-> 1]>>
    /\ records = [k \in 1..Len(ReportBorrowDays) |->
                    [patron_id |-> P1, book_id |-> k,
                     borrow_date |-> Days(ReportBorrowDays[k]),
                     due_date |-> Days(ReportBorrowDays[k]) + Days(LoanDays),
                     return_date |-> <<>>]]
    /\ now = Days(ReportToday)
    /\ resp = NoReply

NextReport ==
    \/ \E p \in Patrons, b \in ReportBookInputs :
          Borrow(p, b, {TRUE}) /\ Len(records') <= ReportRecords
    \/ \E p \in Patrons, b \in ReportBookInputs : Return(p, b, {TRUE})
    \/ \E p \in PatronInputs, b \in ReportBookInputs : LateFee(p, b)
    \/ \E p \in ReportPatronInputs : StatusReport(p)

SpecReport == InitReport /\ [][NextReport]_vars

(***************************************************************************)
(* The whole front desk on the same shelf: lending calls whose store       *)
(* writes may fail, and the calls that only read.                          *)
(***************************************************************************)
\* the desk's callers: the patron who holds the loans and a malformed id; the
\* long-overdue book, the book not yet due and a book the catalog lacks
DeskPatronInputs == {P1, PAlpha}
DeskBookInputs == {1, 3, 4}

NextDesk ==
    \/ \E p \in DeskPatronInputs, b \in DeskBookInputs :
          Borrow(p, b, StoreOutcomes) /\ Len(records') <= ReportRecords
    \/ \E p \in DeskPatronInputs, b \in DeskBookInputs : Return(p, b, StoreOutcomes)
    \/ \E p \in DeskPatronInputs, b \in DeskBookInputs : LateFee(p, b)
    \/ \E p \in DeskPatronInputs : StatusReport(p)
    \/ \E q \in SearchInputs : Search(q[1], q[2])
    \/ \E p \in DeskPatronInputs, b \in DeskBookInputs :
          PayLateFees(p, b, GatewayOutcomes)
    \/ \E in \in RefundInputs : Refund(in[1], in[2], GatewayOutcomes)

SpecDesk == InitReport /\ [][NextDesk]_vars

(***************************************************************************)
(* A patron close to the borrowing limit: the catalog holds one more       *)
(* single-copy book than a patron may borrow, and the first patron has     *)
(* borrowed all but two of them.  Calls are made on the books not yet lent *)
(* and on the last one lent; the store does not fail.                      *)
(***************************************************************************)
LimitBooks == MaxLoans + 1
LimitHeld == MaxLoans - 1
LimitBookInputs == LimitHeld..LimitBooks

LimitIsbn(k) ==
    <<"9", "7", "9", "1", "0", "0", "0", "0", "0", "0", "0", "0">> \o <<DigitSeq[k + 1]>>

InitLimit ==
    /\ books = [k \in 1..LimitBooks |->
                  [title |-> TitleDune, author |-> AuthorFH, isbn |-> LimitIsbn(k),
                   total_copies |-> 1,
                   available_copies |-> IF k <= LimitHeld THEN 0 ELSE 1]]
    /\ records = [k \in 1..LimitHeld |->
                    [patron_id |-> P1, book_id |-> k, borrow_date |-> 0,
                     due_date |-> Days(LoanDays), return_date |-> <<>>]]
    /\ now = 0
    /\ resp = NoReply

NextLimit ==
    \/ \E p \in Patrons, b \in LimitBookInputs :
          Borrow(p, b, {TRUE}) /\ Len(records') <= LimitRecords
    \/ \E p \in Patrons, b \in LimitBookInputs : Return(p, b, {TRUE})

SpecLimit == InitLimit /\ [][NextLimit]_vars

(***************************************************************************)
(* The same desk, where borrow is also called with a patron id that is not *)
(* six digits and with the id of a book the catalog does not hold.         *)
(***************************************************************************)
NextLimitRejects ==
    \/ \E p \in PatronInputs, b \in LimitHeld..(LimitBooks + 1) :
          Borrow(p, b, {TRUE}) /\ Len(records') <= LimitRecords
    \/ \E p \in Patrons, b \in LimitBookInputs : Return(p, b, {TRUE})

SpecLimitRejects == InitLimit /\ [][NextLimitRejects]_vars

(***************************************************************************)
(* Properties.                                                             *)
(***************************************************************************)

\* the number of rows of a borrow_records table that are a patron's active loans
ActiveCountIn(recs, p) ==
    Cardinality({i \in DOMAIN recs : recs[i].patron_id = p /\ recs[i].return_date = <<>>})

\* C1: in every state reachable by add_book, borrow and return calls whose
\* store writes may each succeed or fail, every book has
\* 0 <= available_copies <= total_copies.
C1_AvailabilityInRange ==
    \A b \in BookIds :
        /\ 0 <= books[b].available_copies
        /\ books[b].available_copies <= books[b].total_copies

\* C2: a successful borrow lowers the borrowed book's available_copies by
\* exactly 1 (and no other book's) and raises the patron's active-loan count
\* by exactly 1; a borrow by a patron of a book with available_copies 0 is
\* rejected with "not available" and changes nothing; no borrow leaves a book
\* with available_copies below 0.
C2_BorrowTakesOneCopy ==
    [][resp'.op = "borrow" =>
        LET p == resp'.patron
            b == resp'.book
        IN  /\ resp'.ok =>
                /\ BookExists(b)
                /\ books' = [books EXCEPT ![b].available_copies = @ - 1]
                /\ ActiveCountIn(records', p) = ActiveCountIn(records, p) + 1
            /\ (ValidPatronId(p) /\ BookExists(b) /\ books[b].available_copies = 0) =>
                /\ ~resp'.ok
                /\ resp'.msg = MsgNotAvailable
                /\ UNCHANGED <<books, records>>
            /\ \A x \in DOMAIN books' : books'[x].available_copies >= 0]_vars

\* C2 witness: a borrow was rejected as not available after a borrow of the same
\* book took its last copy.
C2_Witness ==
    /\ resp.op = "borrow"
    /\ resp.msg = MsgNotAvailable
    /\ books[resp.book].available_copies = 0
    /\ \E i \in RecordIds : records[i].book_id = resp.book /\ IsActive(records[i])

\* C3 as stated: no patron ever has more than 5 active records, and a borrow by
\* a patron who already has 5 active records is rejected with the
\* maximum-borrowing-limit message whatever book is requested.
C3_LimitMessageWhateverBook ==
    [][/\ \A p \in Patrons : ActiveCountIn(records', p) <= 5
       /\ (/\ resp'.op = "borrow"
           /\ ValidPatronId(resp'.patron)
           /\ BookExists(resp'.book)
           /\ ActiveCountIn(records, resp'.patron) >= 5) =>
              (~resp'.ok /\ resp'.msg = MsgLimit)]_vars

\* C3 amended: no patron ever has more than 5 active records; a borrow by a
\* patron who already has 5 active records is rejected and changes nothing,
\* whatever book is requested, and the message is the maximum-borrowing-limit
\* message when the requested book has a copy available (a book with no copy
\* available is refused as not available first).
C3_AtMostFiveActive ==
    [][/\ \A p \in Patrons : ActiveCountIn(records', p) <= 5
       /\ (/\ resp'.op = "borrow"
           /\ ValidPatronId(resp'.patron)
           /\ BookExists(resp'.book)
           /\ ActiveCountIn(records, resp'.patron) >= 5) =>
              /\ ~resp'.ok
              /\ UNCHANGED <<books, records>>
              /\ books[resp'.book].available_copies > 0 => resp'.msg = MsgLimit
              /\ books[resp'.book].available_copies <= 0 =>
                    resp'.msg = MsgNotAvailable]_vars

\* C3 witness: a patron with 5 active records was refused a sixth with the
\* maximum-borrowing-limit message, the book having a copy available.
C3_Witness ==
    /\ resp.op = "borrow"
    /\ resp.msg = MsgLimit
    /\ get_patron_borrow_count(resp.patron) = 5
    /\ books[resp.book].available_copies > 0

\* C4: in every reachable state there is at most one active record for each
\* (patron_id, book_id) pair.
C4_OneActivePerPair ==
    \A p \in Patrons, b \in BookIds : Cardinality(ActiveIds(p, b)) <= 1

\* C5: a return by a patron who holds no active record on the book (also when
\* another patron holds it) is rejected with the no-active-loan message and
\* leaves every book and every record unchanged.
C5_ReturnWithoutLoanRejected ==
    [][(/\ resp'.op = "return"
        /\ ValidPatronId(resp'.patron)
        /\ BookExists(resp'.book)
        /\ ActiveIds(resp'.patron, resp'.book) = {}) =>
            /\ ~resp'.ok
            /\ resp'.msg = MsgNoLoan
            /\ UNCHANGED <<books, records>>]_vars

\* C5 witness: a patron's return was rejected with the no-active-loan message
\* while another patron holds the book.
C5_Witness ==
    /\ resp.op = "return"
    /\ resp.msg = MsgNoLoan
    /\ \E i \in RecordIds :
          /\ records[i].book_id = resp.book
          /\ records[i].patron_id # resp.patron
          /\ IsActive(records[i])

\* C6: a successful return sets return_date on exactly one record, the most
\* recent active record of the pair, leaves every other record unchanged,
\* raises the book's available_copies by exactly 1 and lowers the patron's
\* active-loan count by exactly 1.
C6_ReturnClosesOneRecord ==
    [][(resp'.op = "return" /\ resp'.ok) =>
        LET p == resp'.patron
            b == resp'.book
        IN  /\ \E i \in get_active_borrow(p, b) :
                  records' = [records EXCEPT ![i].return_date = <<now>>]
            /\ books' = [books EXCEPT ![b].available_copies = @ + 1]
            /\ ActiveCountIn(records', p) = ActiveCountIn(records, p) - 1]_vars

\* C7: a record goes NONE -> ACTIVE -> RETURNED only.  No call deletes a record
\* or changes its patron, book, borrow date or due date; once return_date is
\* set the record never changes again; a successful borrow, also of a book the
\* patron has returned before, appends a new active record.
C7_ReturnedIsTerminal ==
    [][/\ Len(records') >= Len(records)
       /\ \A i \in RecordIds :
             /\ records'[i].patron_id = records[i].patron_id
             /\ records'[i].book_id = records[i].book_id
             /\ records'[i].borrow_date = records[i].borrow_date
             /\ records'[i].due_date = records[i].due_date
             /\ ~IsActive(records[i]) => records'[i] = records[i]
       /\ (resp'.op = "borrow" /\ resp'.ok) =>
             /\ Len(records') = Len(records) + 1
             /\ records'[Len(records')].patron_id = resp'.patron
             /\ records'[Len(records')].book_id = resp'.book
             /\ IsActive(records'[Len(records')])]_vars

\* C7 witness: a patron borrowed again a book they had returned: the returned
\* record is still there and a later record of the same pair is active.
C7_Witness ==
    /\ resp.op = "borrow"
    /\ resp.ok
    /\ \E i \in RecordIds, j \in RecordIds :
          /\ i < j
          /\ records[i].patron_id = records[j].patron_id
          /\ records[i].book_id = records[j].book_id
          /\ ~IsActive(records[i])
          /\ IsActive(records[j])
          /\ records[j].borrow_date > records[i].borrow_date

\* C8: for every successful return the fee stated in the return message is the
\* Fee Policy fee for the returned loan's due date and the current date, and
\* the message says "No fee" exactly when that fee is 0.
C8_ReturnFeeIsPolicyFee ==
    [][(resp'.op = "return" /\ resp'.ok) =>
        \E loan \in get_active_borrow(resp'.patron, resp'.book) :
            /\ resp'.fee = Quote(records[loan].due_date, now).fee
            /\ (resp'.msg = MsgReturnNoFee) <=>
                  (Quote(records[loan].due_date, now).fee = 0)]_vars

\* C9: for an active loan whose due date is d > 0 calendar days before today
\* the quote has status overdue, days_overdue = d and fee_amount (in cents)
\* min(50*min(d,7) + 100*max(0,d-7), 1500); d=3 gives 1.50, d=10 gives 6.50,
\* d=40 gives 15.00.
C9_TieredCappedFee ==
    (resp.op = "late_fee") =>
        \A loan \in get_active_borrow(resp.patron, resp.book) :
            LET d == DateOf(now) - DateOf(records[loan].due_date)
            IN  d > 0 =>
                  /\ resp.msg = "overdue"
                  /\ resp.days = d
                  /\ resp.fee = Min(50 * Min(d, 7) + 100 * Max(0, d - 7), 1500)
                  /\ d = 3 => resp.fee = 150
                  /\ d = 10 => resp.fee = 650
                  /\ d = 40 => resp.fee = 1500

\* C9 witness: a loan 40 days overdue was quoted at the capped fee.
C9_Witness ==
    /\ resp.op = "late_fee"
    /\ resp.msg = "overdue"
    /\ resp.days = 40
    /\ resp.fee = 1500

\* C10: the fee quoted for an active loan never exceeds 15.00, is no less than
\* the fee at any earlier time (it is non-decreasing in the calendar days
\* between the due date and today), and is 0.00 with days_overdue 0 and status
\* on time whenever today's date is on or before the due date, at any time of
\* day.
C10_FeeMonotoneBoundedZeroOnTime ==
    (resp.op = "late_fee") =>
        \A loan \in get_active_borrow(resp.patron, resp.book) :
            LET due == records[loan].due_date
            IN  /\ resp.fee <= 1500
                /\ \A t \in 0..now :
                      /\ Quote(due, t).fee <= resp.fee
                      /\ Quote(due, t).days <= resp.days
                /\ DateOf(now) <= DateOf(due) =>
                      /\ resp.fee = 0
                      /\ resp.days = 0
                      /\ resp.msg = "on time"

\* C10 witness: a quote on the due date, after the due time of day, is on time
\* at no fee.
C10_Witness ==
    /\ resp.op = "late_fee"
    /\ resp.msg = "on time"
    /\ resp.fee = 0
    /\ \E loan \in get_active_borrow(resp.patron, resp.book) :
          /\ DateOf(now) = DateOf(records[loan].due_date)
          /\ now > records[loan].due_date

\* the requirements on add_book's arguments: title and author not blank and at
\* most 200 and 100 characters, isbn exactly 13 digits, a positive copy count
ValidBookInput(title, author, isbn, copies) ==
    /\ Strip(title) # <<>> /\ Len(Strip(title)) <= 200
    /\ Strip(author) # <<>> /\ Len(Strip(author)) <= 100
    /\ Len(isbn) = 13 /\ \A i \in 1..Len(isbn) : isbn[i] \in Digits
    /\ copies > 0

\* the rows of a books table that carry an isbn
RowsWithIsbn(bks, isbn) == {b \in DOMAIN bks : bks[b].isbn = isbn}

\* C12: add_book with valid arguments and an isbn not yet in the catalog
\* succeeds, and a fetch by that isbn then yields one book with
\* available_copies = total_copies = copies.
C12_AddThenFetch ==
    [][\A in \in CatalogInputs :
          (/\ AddBook(in[1], in[2], in[3], in[4], {TRUE})
           /\ ValidBookInput(in[1], in[2], in[3], in[4])
           /\ RowsWithIsbn(books, in[3]) = {}) =>
              /\ resp'.ok
              /\ Cardinality(RowsWithIsbn(books', in[3])) = 1
              /\ \A b \in RowsWithIsbn(books', in[3]) :
                    /\ books'[b].total_copies = in[4]
                    /\ books'[b].available_copies = in[4]]_vars

\* C12 witness: the second valid book was added with three copies, all
\* available, after the first.
C12_Witness ==
    /\ resp.op = "add_book"
    /\ resp.ok
    /\ Len(books) = 2
    /\ books[2].isbn = IsbnB
    /\ books[2].total_copies = 3
    /\ books[2].available_copies = 3

\* C13: add_book with an isbn already in the catalog fails, whatever the
\* title, author and copies, and leaves the catalog unchanged; no two books
\* ever share an isbn.
C13_DuplicateIsbnRejected ==
    [][/\ \A in \in CatalogInputs :
             (/\ AddBook(in[1], in[2], in[3], in[4], {TRUE})
              /\ RowsWithIsbn(books, in[3]) # {}) =>
                 (~resp'.ok /\ books' = books)
       /\ \A a \in DOMAIN books', b \in DOMAIN books' :
             a # b => books'[a].isbn # books'[b].isbn]_vars

\* C13 witness: an add_book was refused as a duplicate although its title and
\* copy count differ from the book that holds the isbn.
C13_Witness ==
    /\ resp.op = "add_book"
    /\ resp.msg = "A book with this ISBN already exists."
    /\ \E b \in BookIds : books[b].isbn = IsbnA /\ books[b].total_copies = 1

\* C14: add_book rejects every isbn that is not exactly 13 digit characters,
\* so every book in the catalog has an isbn of exactly 13 digits.
C14_IsbnThirteenDigits ==
    \A b \in BookIds :
        /\ Len(books[b].isbn) = 13
        /\ \A i \in 1..Len(books[b].isbn) : books[b].isbn[i] \in Digits

\* C15: a borrow refused for the patron id, for an unknown book, for a book
\* with no copy available or for the borrowing limit writes nothing to the
\* store, and the four reasons are tested in that order: the first that
\* applies determines the message.
C15_RejectedBorrowWritesNothing ==
    [][resp'.op = "borrow" =>
        LET p == resp'.patron
            b == resp'.book
            badPatron == ~(Len(p) = 6 /\ \A i \in 1..Len(p) : p[i] \in Digits)
            noBook == b \notin DOMAIN books
            noCopy == books[b].available_copies <= 0
            atLimit == ActiveCountIn(records, p) >= 5
        IN  /\ badPatron => resp'.msg = MsgInvalidPatron
            /\ (~badPatron /\ noBook) => resp'.msg = MsgBookNotFound
            /\ (~badPatron /\ ~noBook /\ noCopy) => resp'.msg = MsgNotAvailable
            /\ (~badPatron /\ ~noBook /\ ~noCopy /\ atLimit) => resp'.msg = MsgLimit
            /\ resp'.msg \in {MsgInvalidPatron, MsgBookNotFound, MsgNotAvailable,
                              MsgLimit} =>
                  (~resp'.ok /\ UNCHANGED <<books, records>>)]_vars

\* C15 witness: a patron holding 5 active loans asked for a book with no copy
\* available and was told it is not available, the earlier of the two reasons.
C15_Witness ==
    /\ resp.op = "borrow"
    /\ resp.msg = MsgNotAvailable
    /\ ActiveCountIn(records, resp.patron) = 5
    /\ books[resp.book].available_copies = 0

\* the Fee Policy fee of each active row of a patron, summed
RECURSIVE PolicyFeeSum(_, _)
PolicyFeeSum(S, t) ==
    IF S = {} THEN 0
    ELSE LET i == CHOOSE i \in S : TRUE
         IN  Quote(records[i].due_date, t).fee + PolicyFeeSum(S \ {i}, t)

\* the rows of the records table that belong to a patron
RowsOf(p) == {i \in RecordIds : records[i].patron_id = p}

C17_ActiveCountIsActiveRecords ==
    (resp.op = "status" /\ ValidPatronId(resp.patron)) =>
        /\ resp.status = "ok"
        /\ resp.active_count = Len(resp.borrowed_now)
        /\ resp.active_count = ActiveCountIn(records, resp.patron)

\* C17 witness: a report after a return and a new borrow lists the active
\* loans only.
C17_Witness ==
    /\ resp.op = "status"
    /\ resp.active_count = 3
    /\ Len(records) = 4
    /\ \E i \in RowsOf(resp.patron) : ~IsActive(records[i])

\* C18: for every patron id that is not exactly 6 digit characters (too
\* short, with a letter, or padded with whitespace) the status report is
\* empty: borrowed_now = [], active_count = 0, late_fees = "0.00",
\* history = [] and a status other than "ok".
C18_ReportRejectsWhatBorrowRejects ==
    (resp.op = "status" /\ ~ValidPatronId(resp.patron)) =>
        /\ resp.borrowed_now = <<>>
        /\ resp.active_count = 0
        /\ resp.late_fees = <<"0", ".", "0", "0">>
        /\ resp.history = <<>>
        /\ resp.status # "ok"

\* C19: in a status report for a valid patron, late_fees is the sum over the
\* patron's active records of the Fee Policy fee for that record's own due
\* date and today.
C19_LateFeesSumPerRecord ==
    (resp.op = "status" /\ ValidPatronId(resp.patron)) =>
        resp.late_fees =
            Format2(PolicyFeeSum({i \in RowsOf(resp.patron) : IsActive(records[i])},
                                 now))

\* C20: in a status report for a valid patron, history has exactly one entry
\* for each record of the patron, active or returned, newest borrow first;
\* every loan of borrowed_now is in history; an entry's return_date is null
\* exactly when its loan is active.
C20_HistoryListsEveryRecord ==
    (resp.op = "status" /\ ValidPatronId(resp.patron)) =>
        LET h == resp.history
            entry(i) == [book_id |-> records[i].book_id,
                         title |-> books[records[i].book_id].title,
                         author |-> books[records[i].book_id].author,
                         borrow_date |-> records[i].borrow_date,
                         due_date |-> records[i].due_date,
                         return_date |-> records[i].return_date]
        IN  /\ Len(h) = Cardinality(RowsOf(resp.patron))
            /\ \A k \in 1..Len(h) :
                  Cardinality({j \in 1..Len(h) : h[j] = h[k]})
                      = Cardinality({i \in RowsOf(resp.patron) : entry(i) = h[k]})
            /\ \A j \in 1..Len(h), k \in 1..Len(h) :
                  j < k => h[j].borrow_date >= h[k].borrow_date
            /\ \A n \in 1..Len(resp.borrowed_now) :
                  \E k \in 1..Len(h) :
                      /\ h[k].book_id = resp.borrowed_now[n].book_id
                      /\ DateOf(h[k].due_date) = resp.borrowed_now[n].due_date
                      /\ h[k].return_date = <<>>
            /\ Cardinality({k \in 1..Len(h) : h[k].return_date = <<>>})
                  = ActiveCountIn(records, resp.patron)

\* C20 witness: a report whose history holds a returned loan after (older
\* than) an active one.
C20_Witness ==
    /\ resp.op = "status"
    /\ Len(resp.history) = 4
    /\ resp.history[1].return_date = <<>>
    /\ resp.history[4].return_date # <<>>
    /\ resp.history[1].borrow_date > resp.history[4].borrow_date

\* C16: a book's available_copies changes only in a successful borrow (-1) or
\* return (+1) of that book, and records change only in borrow and return:
\* search, the fee quote, the status report, pay_late_fees and
\* refund_late_fee_payment leave every book and every record as they were.
C16_OnlyBorrowAndReturnWrite ==
    [][/\ DOMAIN books' = DOMAIN books
       /\ \A b \in DOMAIN books :
             books'[b].available_copies # books[b].available_copies =>
                /\ resp'.op \in {"borrow", "return"}
                /\ resp'.ok
                /\ resp'.book = b
                /\ books'[b].available_copies - books[b].available_copies
                      = (IF resp'.op = "borrow" THEN -1 ELSE 1)
       /\ records' # records => resp'.op \in {"borrow", "return"}
       /\ resp'.op \in {"search", "late_fee", "status", "pay", "refund"} =>
             (books' = books /\ records' = records)]_vars

\* C16 witness: a late fee was paid and the loan it was paid for is still
\* active and still overdue.
C16_Witness ==
    /\ resp.op = "pay"
    /\ resp.ok
    /\ resp.amount = 1500
    /\ \E i \in RowsOf(resp.patron) :
          /\ records[i].book_id = resp.book
          /\ IsActive(records[i])
          /\ DateOf(now) > DateOf(records[i].due_date)

\* the active loans of patron p on book b
ActiveLoansOf(p, b) ==
    {i \in RecordIds : /\ records[i].patron_id = p
                       /\ records[i].book_id = b
                       /\ IsActive(records[i])}

\* nothing is owed on (p, b): the book is unknown, the patron has no active
\* loan of it, or every such loan is still within its due date
NothingOwed(p, b) ==
    \/ ~BookExists(b)
    \/ \A i \in ActiveLoansOf(p, b) : DateOf(now) <= DateOf(records[i].due_date)

\* C21: pay_late_fees does not contact the gateway for a patron id that is not
\* six digits or when nothing is owed (on-time loan, no active loan, unknown
\* book), and answers (False, reason, None); when it contacts the gateway it
\* calls process_payment once, with the recomputed fee, which is in (0, 15.00]
C21_GatewayOnlyForPositiveFee ==
    resp.op = "pay" =>
        /\ (~ValidPatronId(resp.patron) \/ NothingOwed(resp.patron, resp.book))
               => /\ resp.calls = 0
                  /\ ~resp.ok
                  /\ resp.txn = <<>>
                  /\ resp.msg # ""
        /\ resp.calls # 0
               => /\ resp.calls = 1
                  /\ \E q \in calculate_late_fee_for_book(resp.patron, resp.book) :
                         resp.amount = q.fee
                  /\ 0 < resp.amount
                  /\ resp.amount <= FeeCapCents

\* a payment asked for a loan that is still on time was refused before the gateway
C21_Witness ==
    /\ resp.op = "pay"
    /\ resp.patron = P1
    /\ ActiveLoansOf(P1, resp.book) # {}
    /\ NothingOwed(P1, resp.book)
    /\ resp.calls = 0
    /\ resp.msg = "No late fees to pay for this book."

\* C22: pay_late_fees returns a transaction id exactly when the gateway's
\* process_payment reported success; a decline and an exception of the gateway
\* both give (False, message, None), as a reply and after one gateway call only
C22_TxnIffGatewaySuccess ==
    [][\A p \in DeskPatronInputs, b \in DeskBookInputs, o \in GatewayOutcomes :
          PayLateFees(p, b, {o}) =>
              /\ resp'.op = "pay"
              /\ resp'.calls <= 1
              /\ (resp'.txn # <<>>) <=> (resp'.calls = 1 /\ o = "success")
              /\ resp'.ok <=> (resp'.txn # <<>>)
              /\ (resp'.calls = 1 /\ o \in {"declined", "raises"})
                     => /\ ~resp'.ok
                        /\ resp'.txn = <<>>
                        /\ resp'.msg # ""]_vars

\* the gateway raised while a fee was being paid and the caller got an error reply
C22_Witness ==
    /\ resp.op = "pay"
    /\ resp.calls = 1
    /\ ~resp.ok
    /\ resp.txn = <<>>
    /\ resp.msg = "Payment processing error"

\* a refund request the gateway may be asked about: the transaction id starts
\* with "txn_" and the amount is in (0, 15.00]
RefundAcceptable(txn, amount) ==
    /\ Len(txn) >= 4
    /\ SubSeq(txn, 1, 4) = <<"t", "x", "n", "_">>
    /\ 0 < amount
    /\ amount <= 1500

\* C23: refund_late_fee_payment calls refund_payment exactly when the
\* transaction id starts with "txn_" and 0 < amount <= 15.00 (15.00 accepted);
\* otherwise it answers (False, reason) without the gateway, and a refusal or
\* an exception of the gateway comes back as (False, message)
C23_RefundGatewayIffValid ==
    [][\A in \in RefundInputs, o \in GatewayOutcomes :
          Refund(in[1], in[2], {o}) =>
              /\ resp'.op = "refund"
              /\ resp'.calls = (IF RefundAcceptable(in[1], in[2]) THEN 1 ELSE 0)
              /\ resp'.calls = 0 => (~resp'.ok /\ resp'.msg # "")
              /\ (resp'.calls = 1 /\ o \in {"declined", "raises"})
                     => (~resp'.ok /\ resp'.msg # "")
              /\ (resp'.calls = 1 /\ o = "success") => resp'.ok]_vars

\* a refund of exactly 15.00 was passed to the gateway and went through
C23_Witness ==
    /\ resp.op = "refund"
    /\ resp.amount = 1500
    /\ resp.calls = 1
    /\ resp.ok

\* a string of exactly 13 decimal digits
IsThirteenDigits(t) ==
    /\ Len(t) = 13
    /\ \A k \in 1..Len(t) : t[k] \in {"0", "1", "2", "3", "4", "5", "6", "7", "8", "9"}

\* the answer rows of an isbn search for `wanted`: empty unless wanted is 13
\* digits; then the one book with that isbn, or empty when there is none; never
\* a book with another isbn
IsbnAnswer(bks, rows, wanted) ==
    /\ Len(rows) <= 1
    /\ \A k \in 1..Len(rows) : rows[k] \in DOMAIN bks /\ bks[rows[k]].isbn = wanted
    /\ ~IsThirteenDigits(wanted) => rows = <<>>
    /\ IsThirteenDigits(wanted)
           => (rows = <<>> <=> ~\E b \in DOMAIN bks : bks[b].isbn = wanted)

\* C24 as stated: an isbn search answers for the term exactly as it was given
C24_IsbnSearchExactTerm ==
    [][\A in \in SearchInputs :
          (in[2] = KindIsbn /\ Search(in[1], in[2]))
              => IsbnAnswer(books, resp'.rows, in[1])]_vars

\* C24: search with kind isbn takes the term without its surrounding
\* whitespace; it returns the empty list unless that is exactly 13 digits, and
\* then exactly the one catalog book with that isbn, or the empty list if there
\* is none; never more than one row, never a book with another isbn
C24_IsbnSearchStrippedTerm ==
    [][\A in \in SearchInputs :
          (in[2] = KindIsbn /\ Search(in[1], in[2]))
              => IsbnAnswer(books, resp'.rows, Strip(in[1]))]_vars

\* an isbn search for a 13-digit isbn between two spaces found the book
C24_Witness ==
    /\ resp.op = "search"
    /\ resp.kind = KindIsbn
    /\ resp.term = IsbnPadded
    /\ Len(resp.rows) = 1
    /\ books[resp.rows[1]].isbn = IsbnA

\* the reply of a borrow that passed validation: none of the four refusals
BorrowValidated(reply) ==
    /\ reply.op = "borrow"
    /\ reply.msg \notin {MsgInvalidPatron, MsgBookNotFound, MsgNotAvailable, MsgLimit}

\* the replies of borrow that report a database error
BorrowDatabaseError(reply) ==
    /\ ~reply.ok
    /\ reply.msg \in {MsgInsertFailed, MsgAvailFailed}

\* what the store shows of the two writes of a borrow of book b in a step
InsertCommitted == Len(records') = Len(records) + 1
DecrementCommitted(b) ==
    b \in DOMAIN books /\ books'[b].available_copies = books[b].available_copies - 1

\* C25 as stated: a borrow that passed validation attempts both store writes,
\* and reports a database error exactly when one of the two fails
C25_BothWritesAttempted ==
    [][\A p \in PatronInputs, b \in BookIdInputs :
          (Borrow(p, b, StoreOutcomes) /\ BorrowValidated(resp'))
              => /\ Len(resp'.writes) = 2
                 /\ BorrowDatabaseError(resp')
                        <=> \E k \in 1..Len(resp'.writes) : ~resp'.writes[k].committed]_vars

\* C25: a borrow that passed validation attempts the record insert; it
\* attempts the availability decrement only when the insert was committed; it
\* returns ok=False with a database-error message exactly when a write it
\* attempted failed, and ok=True otherwise
C25_InsertThenAvailability ==
    [][\A p \in PatronInputs, b \in BookIdInputs :
          (Borrow(p, b, StoreOutcomes) /\ BorrowValidated(resp'))
              => LET w == resp'.writes
                 IN  /\ Len(w) \in {1, 2}
                     /\ w[1].write = "insert"
                     /\ w[1].committed <=> InsertCommitted
                     /\ Len(w) = 2 <=> w[1].committed
                     /\ Len(w) = 2 => /\ w[2].write = "availability"
                                      /\ w[2].committed <=> DecrementCommitted(b)
                     /\ Len(w) = 1 => books' = books
                     /\ BorrowDatabaseError(resp')
                            <=> \E k \in 1..Len(w) : ~w[k].committed
                     /\ resp'.ok <=> ~BorrowDatabaseError(resp')]_vars

\* a borrow whose insert failed stopped there
C25_Witness ==
    /\ resp.op = "borrow"
    /\ resp.msg = MsgInsertFailed
    /\ resp.writes = <<Wrote("insert", FALSE)>>

\* the write sequences of a call whose first write was committed and whose
\* availability update failed
InsertOnly == <<Wrote("insert", TRUE), Wrote("availability", FALSE)>>
ReturnDateOnly == <<Wrote("return_date", TRUE), Wrote("availability", FALSE)>>

\* C26: when the first write of a borrow (record insert) or of a return
\* (return_date set) succeeds and the availability update fails, the call
\* returns ok=False with an error message and the first write stays applied:
\* after the borrow the new active record exists with available_copies
\* unchanged, after the return the record is returned with available_copies
\* unchanged
C26_FirstWriteStaysApplied ==
    [][\A p \in PatronInputs, b \in BookIdInputs :
          /\ (Borrow(p, b, StoreOutcomes) /\ resp'.writes = InsertOnly)
                 => /\ ~resp'.ok
                    /\ resp'.msg = MsgAvailFailed
                    /\ Len(records') = Len(records) + 1
                    /\ SubSeq(records', 1, Len(records)) = records
                    /\ LET new == records'[Len(records')]
                       IN  /\ new.patron_id = p
                           /\ new.book_id = b
                           /\ new.return_date = <<>>
                    /\ books' = books
          /\ (Return(p, b, StoreOutcomes) /\ resp'.writes = ReturnDateOnly)
                 => /\ ~resp'.ok
                    /\ resp'.msg = MsgReturnAvailFailed
                    /\ ActiveLoansOf(p, b) # {}
                    /\ Len(records') = Len(records)
                    /\ \A i \in ActiveLoansOf(p, b) : records'[i].return_date = <<now>>
                    /\ books' = books]_vars

\* a return set the return date and then failed to update the availability
C26_Witness ==
    /\ resp.op = "return"
    /\ resp.writes = ReturnDateOnly
    /\ \E i \in RecordIds : /\ records[i].patron_id = resp.patron
                            /\ records[i].book_id = resp.book
                            /\ records[i].return_date # <<>>

\* C27: in a return, when the return_date write fails the availability update
\* is not attempted and the store is left unchanged; the return yields ok=True
\* exactly when both the return_date write and the availability increment
\* succeeded; each of the two failures has its own message
C27_ReturnFailsFast ==
    [][\A p \in PatronInputs, b \in BookIdInputs :
          (Return(p, b, StoreOutcomes) /\ resp'.writes # <<>>)
              => LET w == resp'.writes
                 IN  /\ w[1].write = "return_date"
                     /\ w[1].committed <=> records' # records
                     /\ ~w[1].committed
                            => /\ Len(w) = 1
                               /\ books' = books
                               /\ records' = records
                               /\ ~resp'.ok
                               /\ resp'.msg = MsgReturnFailed
                     /\ w[1].committed
                            => /\ Len(w) = 2
                               /\ w[2].write = "availability"
                               /\ w[2].committed <=> books' # books
                               /\ ~w[2].committed
                                      => (~resp'.ok /\ resp'.msg = MsgReturnAvailFailed)
                     /\ resp'.ok <=> /\ records' = update_borrow_record_return_date(p, b, now)
                                     /\ records' # records
                                     /\ books' = update_book_availability(b, 1)
                     /\ MsgReturnFailed # MsgReturnAvailFailed]_vars

\* a return whose return-date write failed stopped there
C27_Witness ==
    /\ resp.op = "return"
    /\ resp.msg = MsgReturnFailed
    /\ resp.writes = <<Wrote("return_date", FALSE)>>
    /\ ActiveLoansOf(resp.patron, resp.book) # {}

\* the number of active records of book b in a table of records
ActiveOfBook(recs, b) ==
    Cardinality({i \in DOMAIN recs : recs[i].book_id = b /\ recs[i].return_date = <<>>})

\* how far the count of book b is from its loans:
\* available_copies + active records - total_copies
Drift(bks, recs, b) ==
    bks[b].available_copies + ActiveOfBook(recs, b) - bks[b].total_copies

\* the last call was a borrow (a return) of book b by patron p that committed
\* its first write and failed on the availability update, and that is the only
\* disagreement between the count of the book and its loans
BorrowLeftHalfDone(p, b) ==
    /\ resp.op = "borrow" /\ resp.patron = p /\ resp.book = b
    /\ resp.writes = InsertOnly
    /\ Drift(books, records, b) = 1
ReturnLeftHalfDone(p, b) ==
    /\ resp.op = "return" /\ resp.patron = p /\ resp.book = b
    /\ resp.writes = ReturnDateOnly
    /\ Drift(books, records, b) = -1

\* C28: after a partially failed borrow or return, the same call repeated with
\* the same arguments and with store writes that succeed leaves the book
\* consistent again: available_copies + active records of the book = total_copies
C28_RetryRestoresConsistency ==
    [][\A p \in PatronInputs, b \in BookIdInputs :
          /\ (BorrowLeftHalfDone(p, b) /\ Borrow(p, b, {TRUE}))
                 => Drift(books', records', b) = 0
          /\ (ReturnLeftHalfDone(p, b) /\ Return(p, b, {TRUE}))
                 => Drift(books', records', b) = 0]_vars

\* C29: from a catalog built by add_book and with no store write failing,
\* every state reached by borrow and return calls has, for each book,
\* available_copies + active records of the book = total_copies
C29_CopiesAccountedFor ==
    \A b \in BookIds : Drift(books, records, b) = 0

\* C30: in a status report the overdue flag of each active loan agrees with
\* the fee policy: overdue is true exactly when the fee quote for that loan has
\* status overdue (fee > 0), also when the loan is due today and the time of
\* day it is due at has passed
C30_OverdueFlagMatchesQuote ==
    (resp.op = "status" /\ resp.status = "ok") =>
        \A k \in 1..Len(resp.borrowed_now) :
            \A q \in calculate_late_fee_for_book(resp.patron,
                                                 resp.borrowed_now[k].book_id) :
                /\ resp.borrowed_now[k].overdue <=> q.status = "overdue"
                /\ resp.borrowed_now[k].overdue <=> q.fee > 0

====
